---- MODULE Spec2Model ----
(***************************************************************************)
(* torch::distributed::rpc::Message (message.cpp): the RPC envelope, its   *)
(* copy / move / swap life cycle, the request / response classification,   *)
(* the IValue tuple codec and the exception-response factory.              *)
(*                                                                         *)
(* A Message owns two std::vector objects.  A vector is modelled by the    *)
(* address of its storage in a heap (0: no storage, the vector is empty),  *)
(* so that copying (new storage), moving (storage changes owner) and       *)
(* aliasing are different things in the model, as they are in the program. *)
(* Allocation is assumed to succeed, except in copy assignment, where the  *)
(* two vector copies may throw std::bad_alloc.                             *)
(***************************************************************************)
EXTENDS Integers, Sequences, FiniteSets, TLC

VARIABLES
  msgs,    \* the Message objects, by slot: payload_, tensors_, type_, id_
  pheap,   \* storage of the std::vector<char> payloads, by address
  theap,   \* storage of the std::vector<torch::Tensor> lists, by address
  ret,     \* the last operation: its name, operands, result and exception
  copyOf   \* history: copyOf[i] = j when slot i was last made as a copy of j

vars == <<msgs, pheap, theap, ret, copyOf>>

(* ------------------------------ bounds --------------------------------- *)

\* Longest payload / tensor list / exception text the codec is fed.
MaxLen == 2
\* Largest correlation id handed to a constructor or to setId.
MaxId == 0

\* The two Message objects of the life-cycle specification.
Slots == {1, 2}
\* Bytes of a payload: NUL and two other characters.
Chars == {0, 1, 2}
\* Tensor handles; what they refer to is not this file's concern.
Handles == {1, 2}
Ids == (0 - 1) .. MaxId

RECURSIVE SeqsUpTo(_, _)
SeqsUpTo(S, n) ==
  IF n = 0 THEN {<<>>}
  ELSE LET shorter == SeqsUpTo(S, n - 1)
       IN shorter \cup {Append(q, x) : q \in {r \in shorter : Len(r) = n - 1}, x \in S}

\* What the life-cycle specification constructs and writes.
PayloadInputs == {<<>>, <<2, 0>>}
TensorInputs == {<<>>, <<1, 2>>}

(* --------------------------- MessageType ------------------------------- *)

SCRIPT_CALL == 0
SCRIPT_RET == 1
PYTHON_CALL == 2
PYTHON_RET == 3
SCRIPT_REMOTE_CALL == 4
PYTHON_REMOTE_CALL == 5
REMOTE_RET == 6
SCRIPT_RREF_FETCH_CALL == 7
PYTHON_RREF_FETCH_CALL == 8
SCRIPT_RREF_FETCH_RET == 9
PYTHON_RREF_FETCH_RET == 10
RREF_USER_DELETE == 11
RREF_FORK_REQUEST == 12
RREF_CHILD_ACCEPT == 13
RREF_ACK == 14
FORWARD_AUTOGRAD_REQ == 15
FORWARD_AUTOGRAD_RESP == 16
BACKWARD_AUTOGRAD_REQ == 17
BACKWARD_AUTOGRAD_RESP == 18
CLEANUP_AUTOGRAD_CONTEXT_REQ == 19
CLEANUP_AUTOGRAD_CONTEXT_RESP == 20
RUN_WITH_PROFILING_REQ == 21
RUN_WITH_PROFILING_RESP == 22
EXCEPTION == 55
UNKNOWN == 60

\* The enumerators of MessageType.
MessageTypes ==
  { SCRIPT_CALL, SCRIPT_RET, PYTHON_CALL, PYTHON_RET, SCRIPT_REMOTE_CALL,
    PYTHON_REMOTE_CALL, REMOTE_RET, SCRIPT_RREF_FETCH_CALL,
    PYTHON_RREF_FETCH_CALL, SCRIPT_RREF_FETCH_RET, PYTHON_RREF_FETCH_RET,
    RREF_USER_DELETE, RREF_FORK_REQUEST, RREF_CHILD_ACCEPT, RREF_ACK,
    FORWARD_AUTOGRAD_REQ, FORWARD_AUTOGRAD_RESP, BACKWARD_AUTOGRAD_REQ,
    BACKWARD_AUTOGRAD_RESP, CLEANUP_AUTOGRAD_CONTEXT_REQ,
    CLEANUP_AUTOGRAD_CONTEXT_RESP, RUN_WITH_PROFILING_REQ,
    RUN_WITH_PROFILING_RESP, EXCEPTION, UNKNOWN }

\* The id of a Message constructed without one.
DefaultId == -1

(* ------------------------- MessageIValueIdx ---------------------------- *)

PAYLOAD == 0
TENSORS == 1
TYPE == 2
ID == 3
SIZE == 4

(* ------------------------------ IValue --------------------------------- *)
(* at::IValue, a tagged value.  Every variant is a record of the same      *)
(* shape; the fields a variant does not use are 0 and <<>>.                *)

IVNone == [tag |-> "None", i |-> 0, s |-> <<>>, elems |-> <<>>]
IVInt(n) == [tag |-> "Int", i |-> n, s |-> <<>>, elems |-> <<>>]
IVBool(b) == [tag |-> "Bool", i |-> IF b THEN 1 ELSE 0, s |-> <<>>, elems |-> <<>>]
IVString(str) == [tag |-> "String", i |-> 0, s |-> str, elems |-> <<>>]
IVTensor(h) == [tag |-> "Tensor", i |-> h, s |-> <<>>, elems |-> <<>>]
IVList(es) == [tag |-> "GenericList", i |-> 0, s |-> <<>>, elems |-> es]
IVTuple(es) == [tag |-> "Tuple", i |-> 0, s |-> <<>>, elems |-> es]

isTuple(v) == v.tag = "Tuple"
isString(v) == v.tag = "String"
isList(v) == v.tag = "GenericList"
isInt(v) == v.tag = "Int"

(* ------------------------- std::vector storage ------------------------- *)

Addrs == 1 .. (Cardinality(Slots) + 1)
FreeCell == [live |-> FALSE, data |-> <<>>]
EmptyHeap == [a \in Addrs |-> FreeCell]

\* The elements of the vector whose storage is at address a.
VecData(h, a) == IF a = 0 THEN <<>> ELSE h[a].data

\* A new vector holding d: an empty vector allocates nothing.
VecAlloc(h, d) ==
  IF d = <<>> THEN [h |-> h, a |-> 0]
  ELSE LET a == CHOOSE x \in Addrs :
                  /\ ~h[x].live
                  /\ \A y \in Addrs : ~h[y].live => x <= y
       IN [h |-> [h EXCEPT ![a] = [live |-> TRUE, data |-> d]], a |-> a]

\* The destructor of a vector.
VecFree(h, a) == IF a = 0 THEN h ELSE [h EXCEPT ![a] = FreeCell]

\* v = d through a mutable reference to the vector at a: the storage is
\* written in place (allocated when the vector had none).
VecAssign(h, a, d) ==
  IF a = 0 THEN VecAlloc(h, d)
  ELSE [h |-> [h EXCEPT ![a] = [live |-> TRUE, data |-> d]], a |-> a]

(* ------------------------------ Message -------------------------------- *)

\* A slot that holds no object.
NoMessage ==
  [alive |-> FALSE, payload_ |-> 0, tensors_ |-> 0, type_ |-> UNKNOWN, id_ |-> DefaultId]

\* Message::Message() = default: the members' default initializers.
MessageDefault ==
  [alive |-> TRUE, payload_ |-> 0, tensors_ |-> 0, type_ |-> UNKNOWN, id_ |-> DefaultId]

\* Message(payload&&, tensors&&, type): the members take over the storage of
\* the two arguments; id_ keeps its default.
Message3(payload, tensors, type) ==
  [alive |-> TRUE, payload_ |-> payload, tensors_ |-> tensors, type_ |-> type, id_ |-> DefaultId]

\* Message(payload&&, tensors&&, type, id).
Message4(payload, tensors, type, id) ==
  [alive |-> TRUE, payload_ |-> payload, tensors_ |-> tensors, type_ |-> type, id_ |-> id]

\* The program state the operations below work on.
S == [ph |-> pheap, th |-> theap, objs |-> msgs]
EmptyState == [ph |-> EmptyHeap, th |-> EmptyHeap, objs |-> [i \in Slots |-> NoMessage]]

\* What the accessors of object m show: payload(), tensors(), type(), id().
FieldsOf(s, m) ==
  [payload |-> VecData(s.ph, m.payload_), tensors |-> VecData(s.th, m.tensors_),
   type |-> m.type_, id |-> m.id_]
Fields(s, i) == FieldsOf(s, s.objs[i])

\* A call site builds the two vectors and hands them to the constructor.
construct3(s, i, p, t, type) ==
  LET pa == VecAlloc(s.ph, p)
      ta == VecAlloc(s.th, t)
  IN [ph |-> pa.h, th |-> ta.h,
      objs |-> [s.objs EXCEPT ![i] = Message3(pa.a, ta.a, type)]]

construct4(s, i, p, t, type, id) ==
  LET pa == VecAlloc(s.ph, p)
      ta == VecAlloc(s.th, t)
  IN [ph |-> pa.h, th |-> ta.h,
      objs |-> [s.objs EXCEPT ![i] = Message4(pa.a, ta.a, type, id)]]

\* ~Message(): the two vectors release their storage.
destroyMessage(s, m) ==
  [ph |-> VecFree(s.ph, m.payload_), th |-> VecFree(s.th, m.tensors_), objs |-> s.objs]

destroy(s, i) ==
  LET d == destroyMessage(s, s.objs[i])
  IN [d EXCEPT !.objs = [s.objs EXCEPT ![i] = NoMessage]]

\* A copy constructor that copies the two storage pointers instead of the
\* elements: copy and original share their storage.
copyConstructShallow(s, dst, src) ==
  [s EXCEPT !.objs = [s.objs EXCEPT ![dst] = s.objs[src]]]

\* Message(const Message&) = default: member-wise copy; each vector copy has
\* storage of its own.
copyConstruct(s, dst, src) ==
  LET o == s.objs[src]
      pa == VecAlloc(s.ph, VecData(s.ph, o.payload_))
      ta == VecAlloc(s.th, VecData(s.th, o.tensors_))
  IN [ph |-> pa.h, th |-> ta.h,
      objs |-> [s.objs EXCEPT ![dst] =
                 [alive |-> TRUE, payload_ |-> pa.a, tensors_ |-> ta.a,
                  type_ |-> o.type_, id_ |-> o.id_]]]

\* Message(Message&&) = default: member-wise move; the vectors of the source
\* are left empty, type_ and id_ are copied.
moveConstruct(s, dst, src) ==
  LET o == s.objs[src]
  IN [s EXCEPT !.objs =
        [s.objs EXCEPT ![dst] = o,
                       ![src] = [o EXCEPT !.payload_ = 0, !.tensors_ = 0]]]

\* A swap that leaves out std::swap(id_, rhs.id_).
swapWithoutId(this, rhs) ==
  [this |-> [this EXCEPT !.payload_ = rhs.payload_, !.tensors_ = rhs.tensors_,
                         !.type_ = rhs.type_],
   rhs |-> [rhs EXCEPT !.payload_ = this.payload_, !.tensors_ = this.tensors_,
                       !.type_ = this.type_]]

\* Message::swap: a |-> this, b |-> rhs, after the four std::swap calls.
swap(this, rhs) ==
  [this |-> [this EXCEPT !.payload_ = rhs.payload_, !.tensors_ = rhs.tensors_,
                         !.type_ = rhs.type_, !.id_ = rhs.id_],
   rhs |-> [rhs EXCEPT !.payload_ = this.payload_, !.tensors_ = this.tensors_,
                       !.type_ = this.type_, !.id_ = this.id_]]

\* payload() = d and tensors() = t through the mutable references.
assignPayload(s, i, d) ==
  LET pa == VecAssign(s.ph, s.objs[i].payload_, d)
  IN [s EXCEPT !.ph = pa.h, !.objs = [s.objs EXCEPT ![i].payload_ = pa.a]]

assignTensors(s, i, t) ==
  LET ta == VecAssign(s.th, s.objs[i].tensors_, t)
  IN [s EXCEPT !.th = ta.h, !.objs = [s.objs EXCEPT ![i].tensors_ = ta.a]]

\* A copy assignment written member by member, with no temporary:
\* payload_ = rhs.payload_; tensors_ = rhs.tensors_; type_ = ...; id_ = ...
\* When the second vector assignment throws, payload_ is already overwritten.
copyAssignMemberwise(s, dst, src, fail) ==
  LET rhs == s.objs[src]
      s1 == assignPayload(s, dst, VecData(s.ph, rhs.payload_))
      s2 == assignTensors(s1, dst, VecData(s.th, rhs.tensors_))
  IN IF fail = 1 THEN [s |-> s, thrown |-> TRUE]
     ELSE IF fail = 2 THEN [s |-> s1, thrown |-> TRUE]
     ELSE [s |-> [s2 EXCEPT !.objs[dst].type_ = rhs.type_, !.objs[dst].id_ = rhs.id_],
           thrown |-> FALSE]

\* operator=(Message const& rhs): copy rhs.payload_, copy rhs.tensors_, build a
\* temporary from the copies, swap it with *this, destroy the temporary.
\* fail = 1: the first vector copy throws; fail = 2: the second one does, and
\* the local copy of the payload is destroyed on the way out.
\* Returns the state and whether an exception left the operator.
copyAssign(s, dst, src, fail) ==
  LET rhs == s.objs[src]
      pa == VecAlloc(s.ph, VecData(s.ph, rhs.payload_))
      ta == VecAlloc(s.th, VecData(s.th, rhs.tensors_))
      tmp == Message4(pa.a, ta.a, rhs.type_, rhs.id_)
      sw == swap(tmp, s.objs[dst])
      s1 == [ph |-> pa.h, th |-> ta.h, objs |-> [s.objs EXCEPT ![dst] = sw.rhs]]
  IN IF fail = 1 THEN [s |-> s, thrown |-> TRUE]
     ELSE IF fail = 2 THEN [s |-> [s EXCEPT !.ph = VecFree(pa.h, pa.a)], thrown |-> TRUE]
     ELSE [s |-> destroyMessage(s1, sw.this), thrown |-> FALSE]

\* A move assignment written member by member, with no temporary: *this
\* releases its storage and takes rhs's, rhs is left empty.  Assigning an
\* object to itself empties it.
moveAssignMemberwise(s, dst, src) ==
  LET rhs == s.objs[src]
      cur == s.objs[dst]
      freed == [s EXCEPT !.ph = IF dst = src THEN s.ph ELSE VecFree(s.ph, cur.payload_),
                         !.th = IF dst = src THEN s.th ELSE VecFree(s.th, cur.tensors_)]
      objs1 == [s.objs EXCEPT ![dst] = [rhs EXCEPT !.alive = TRUE]]
  IN IF dst = src
       THEN destroyMessage([s EXCEPT !.objs[dst].payload_ = 0, !.objs[dst].tensors_ = 0], cur)
     ELSE [freed EXCEPT !.objs = [objs1 EXCEPT ![src].payload_ = 0, ![src].tensors_ = 0]]

\* operator=(Message&& rhs): build a temporary out of rhs's vectors (rhs's are
\* left empty), swap it with *this, destroy the temporary.
moveAssign(s, dst, src) ==
  LET rhs == s.objs[src]
      tmp == Message4(rhs.payload_, rhs.tensors_, rhs.type_, rhs.id_)
      objs1 == [s.objs EXCEPT ![src] = [rhs EXCEPT !.payload_ = 0, !.tensors_ = 0]]
      sw == swap(tmp, objs1[dst])
      s1 == [s EXCEPT !.objs = [objs1 EXCEPT ![dst] = sw.rhs]]
  IN destroyMessage(s1, sw.this)

\* Message::type, Message::id, Message::setId.
type(m) == m.type_
id(m) == m.id_
\* A setter that assigns the member to itself (id_ = id_).
setIdLost(m, n) == [m EXCEPT !.id_ = m.id_]
setId(m, n) == [m EXCEPT !.id_ = n]

\* A classification that also counts the RRef acknowledgement as a request.
isRequestWithAck(m) ==
  m.type_ \in { SCRIPT_CALL, PYTHON_CALL, SCRIPT_REMOTE_CALL, PYTHON_REMOTE_CALL,
                SCRIPT_RREF_FETCH_CALL, PYTHON_RREF_FETCH_CALL, RREF_USER_DELETE,
                RREF_CHILD_ACCEPT, RREF_FORK_REQUEST, RREF_ACK, BACKWARD_AUTOGRAD_REQ,
                FORWARD_AUTOGRAD_REQ, CLEANUP_AUTOGRAD_CONTEXT_REQ,
                RUN_WITH_PROFILING_REQ }

isRequest(m) ==
  \/ SCRIPT_CALL = m.type_
  \/ PYTHON_CALL = m.type_
  \/ SCRIPT_REMOTE_CALL = m.type_
  \/ PYTHON_REMOTE_CALL = m.type_
  \/ SCRIPT_RREF_FETCH_CALL = m.type_
  \/ PYTHON_RREF_FETCH_CALL = m.type_
  \/ RREF_USER_DELETE = m.type_
  \/ RREF_CHILD_ACCEPT = m.type_
  \/ RREF_FORK_REQUEST = m.type_
  \/ BACKWARD_AUTOGRAD_REQ = m.type_
  \/ FORWARD_AUTOGRAD_REQ = m.type_
  \/ CLEANUP_AUTOGRAD_CONTEXT_REQ = m.type_
  \/ RUN_WITH_PROFILING_REQ = m.type_

isResponse(m) ==
  \/ SCRIPT_RET = m.type_
  \/ PYTHON_RET = m.type_
  \/ REMOTE_RET = m.type_
  \/ SCRIPT_RREF_FETCH_RET = m.type_
  \/ PYTHON_RREF_FETCH_RET = m.type_
  \/ EXCEPTION = m.type_
  \/ RREF_ACK = m.type_
  \/ BACKWARD_AUTOGRAD_RESP = m.type_
  \/ FORWARD_AUTOGRAD_RESP = m.type_
  \/ CLEANUP_AUTOGRAD_CONTEXT_RESP = m.type_
  \/ RUN_WITH_PROFILING_RESP = m.type_

(* ----------------------------- tuple codec ----------------------------- *)

\* An encoder that fills the tuple as (payload, tensors, id, type).
toIValueTupleIdFirst(s, m) ==
  LET payload == VecData(s.ph, m.payload_)
      tensors == VecData(s.th, m.tensors_)
      messageTensors == [k \in 1 .. Len(tensors) |-> IVTensor(tensors[k])]
  IN IVTuple(<<IVString(payload), IVList(messageTensors), IVInt(m.id_), IVInt(m.type_)>>)

\* Message::toIValueTuple of object m: (payload string, tensor list, type, id).
toIValueTuple(s, m) ==
  LET payload == VecData(s.ph, m.payload_)
      tensors == VecData(s.th, m.tensors_)
      messageTensors == [k \in 1 .. Len(tensors) |-> IVTensor(tensors[k])]
  IN IVTuple(<<IVString(payload), IVList(messageTensors), IVInt(m.type_), IVInt(m.id_)>>)

\* IValue::toTensorVector of a list of tensors.
toTensorVector(v) == [k \in 1 .. Len(v.elems) |-> v.elems[k].i]

\* A decoder without the isInt assertion on the id slot.
fromIValueTupleIdUnchecked(s, dst, messageTuple) ==
  LET values == messageTuple.elems
  IN IF ~isTuple(messageTuple)
       THEN [s |-> s, err |-> "Expected messageTuple to be of type tuple."]
     ELSE IF Len(values) # SIZE
       THEN [s |-> s, err |-> "Expected 4 elements in tuple."]
     ELSE IF ~isString(values[PAYLOAD + 1])
       THEN [s |-> s, err |-> "Expected payload to be string"]
     ELSE IF ~isList(values[TENSORS + 1])
       THEN [s |-> s, err |-> "Expected tensorsIValue to be list"]
     ELSE IF ~isInt(values[TYPE + 1])
       THEN [s |-> s, err |-> "Expected messageTypeIValue to be int."]
     ELSE [s |-> construct4(s, dst, values[PAYLOAD + 1].s, toTensorVector(values[TENSORS + 1]),
                            values[TYPE + 1].i, values[ID + 1].i),
           err |-> ""]

\* Message::fromIValueTuple(messageTuple), its result constructed in slot dst.
\* Each TORCH_INTERNAL_ASSERT that fails throws with its own text and nothing
\* is constructed.  The integer of slot TYPE is cast to MessageType unchecked.
fromIValueTuple(s, dst, messageTuple) ==
  LET values == messageTuple.elems
      payloadIValue == values[PAYLOAD + 1]
      tensorsIValue == values[TENSORS + 1]
      messageTypeIValue == values[TYPE + 1]
      messageIdIValue == values[ID + 1]
  IN IF ~isTuple(messageTuple)
       THEN [s |-> s, err |-> "Expected messageTuple to be of type tuple."]
     ELSE IF Len(values) # SIZE
       THEN [s |-> s, err |-> "Expected 4 elements in tuple."]
     ELSE IF ~isString(payloadIValue)
       THEN [s |-> s, err |-> "Expected payload to be string"]
     ELSE IF ~isList(tensorsIValue)
       THEN [s |-> s, err |-> "Expected tensorsIValue to be list"]
     ELSE IF ~isInt(messageTypeIValue)
       THEN [s |-> s, err |-> "Expected messageTypeIValue to be int."]
     ELSE IF ~isInt(messageIdIValue)
       THEN [s |-> s, err |-> "Expected messageIdIValue to be int."]
     ELSE [s |-> construct4(s, dst, payloadIValue.s, toTensorVector(tensorsIValue),
                            messageTypeIValue.i, messageIdIValue.i),
           err |-> ""]

(* ------------------------ createExceptionResponse ---------------------- *)

\* A factory that uses the three-argument constructor and loses the id.
createExceptionResponseNoId(s, dst, exceptionStr, n) ==
  construct3(s, dst, exceptionStr, <<>>, EXCEPTION)

\* createExceptionResponse(const std::string& exceptionStr, int64_t id).
createExceptionResponseStr(s, dst, exceptionStr, n) ==
  construct4(s, dst, exceptionStr, <<>>, EXCEPTION, n)

\* std::string(const char*): the characters before the first NUL.
StdString(cstr) ==
  LET k == CHOOSE x \in 1 .. Len(cstr) :
             cstr[x] = 0 /\ \A y \in 1 .. (x - 1) : cstr[y] # 0
  IN SubSeq(cstr, 1, k - 1)

\* createExceptionResponse(const std::exception& e, int64_t id): e.what() is a
\* NUL-terminated character array, converted to std::string for the overload
\* above.
createExceptionResponseExc(s, dst, what, n) ==
  createExceptionResponseStr(s, dst, StdString(what), n)

(* ------------------------------ actions -------------------------------- *)

Ret(op, dst, src, n, arg, err, val) ==
  [op |-> op, dst |-> dst, src |-> src, n |-> n, arg |-> arg, err |-> err, val |-> val]

(* Addresses cannot be observed by the program, so the state an operation *)
(* leaves is stored with its storage renamed: the storage that slot i      *)
(* refers to gets address i (the least such i when several slots refer to  *)
(* the same storage), and storage no slot refers to is dropped.            *)
CanonAddr(refs, i) ==
  IF refs[i] = 0 THEN 0
  ELSE CHOOSE k \in Slots : refs[k] = refs[i] /\ \A j \in Slots : refs[j] = refs[i] => k <= j

CanonHeap(h, refs) ==
  [a \in Addrs |-> IF a \in Slots /\ refs[a] # 0 /\ CanonAddr(refs, a) = a
                   THEN h[refs[a]] ELSE FreeCell]

Canon(s) ==
  LET pr == [i \in Slots |-> s.objs[i].payload_]
      tr == [i \in Slots |-> s.objs[i].tensors_]
  IN [ph |-> CanonHeap(s.ph, pr), th |-> CanonHeap(s.th, tr),
      objs |-> [i \in Slots |-> [s.objs[i] EXCEPT !.payload_ = CanonAddr(pr, i),
                                                  !.tensors_ = CanonAddr(tr, i)]]]

Commit(s) ==
  \E v \in {s} : \E c \in {Canon(v)} :
    pheap' = c.ph /\ theap' = c.th /\ msgs' = c.objs

\* Slots in X, and the copies made of them, stop being copy and original.
Forget(c, X) == [k \in Slots |-> IF k \in X \/ c[k] \in X THEN 0 ELSE c[k]]

Alive(i) == msgs[i].alive

DefaultConstruct(i) ==
  /\ ~Alive(i)
  /\ Commit([S EXCEPT !.objs = [msgs EXCEPT ![i] = MessageDefault]])
  /\ ret' = Ret("Message()", i, 0, 0, IVNone, "", IVNone)
  /\ copyOf' = Forget(copyOf, {i})

Construct3(i, p, t, k) ==
  /\ ~Alive(i)
  /\ Commit(construct3(S, i, p, t, k))
  /\ ret' = Ret("Message3", i, 0, 0, IVNone, "", IVNone)
  /\ copyOf' = Forget(copyOf, {i})

Construct4(i, p, t, k, n) ==
  /\ ~Alive(i)
  /\ Commit(construct4(S, i, p, t, k, n))
  /\ ret' = Ret("Message4", i, 0, 0, IVNone, "", IVNone)
  /\ copyOf' = Forget(copyOf, {i})

Destroy(i) ==
  /\ Alive(i)
  /\ Commit(destroy(S, i))
  /\ ret' = Ret("~Message", i, 0, 0, IVNone, "", IVNone)
  /\ copyOf' = Forget(copyOf, {i})

CopyConstruct(dst, src) ==
  /\ Alive(src) /\ ~Alive(dst)
  /\ Commit(copyConstruct(S, dst, src))
  /\ ret' = Ret("copyConstruct", dst, src, 0, IVNone, "", IVNone)
  /\ copyOf' = [Forget(copyOf, {dst}) EXCEPT ![dst] = src]

MoveConstruct(dst, src) ==
  /\ Alive(src) /\ ~Alive(dst)
  /\ Commit(moveConstruct(S, dst, src))
  /\ ret' = Ret("moveConstruct", dst, src, 0, IVNone, "", IVNone)
  /\ copyOf' = Forget(copyOf, {dst, src})

\* A vector copy can throw only when it allocates.
CanFail(src) ==
  {0} \cup (IF VecData(pheap, msgs[src].payload_) # <<>> THEN {1} ELSE {})
      \cup (IF VecData(theap, msgs[src].tensors_) # <<>> THEN {2} ELSE {})

CopyAssign(dst, src) ==
  /\ Alive(src) /\ Alive(dst)
  /\ \E fail \in CanFail(src) :
       LET r == copyAssign(S, dst, src, fail)
       IN /\ Commit(r.s)
          /\ ret' = Ret("copyAssign", dst, src, fail, IVNone,
                        IF r.thrown THEN "std::bad_alloc" ELSE "", IVNone)
          /\ copyOf' = IF r.thrown THEN copyOf
                       ELSE IF dst = src THEN Forget(copyOf, {dst})
                       ELSE [Forget(copyOf, {dst}) EXCEPT ![dst] = src]

MoveAssign(dst, src) ==
  /\ Alive(src) /\ Alive(dst)
  /\ Commit(moveAssign(S, dst, src))
  /\ ret' = Ret("moveAssign", dst, src, 0, IVNone, "", IVNone)
  /\ copyOf' = Forget(copyOf, {dst, src})

SetId(i, n) ==
  /\ Alive(i)
  /\ Commit([S EXCEPT !.objs = [msgs EXCEPT ![i] = setId(msgs[i], n)]])
  /\ ret' = Ret("setId", i, 0, n, IVNone, "", IVNone)
  /\ UNCHANGED copyOf

AssignPayload(i, d) ==
  /\ Alive(i)
  /\ Commit(assignPayload(S, i, d))
  /\ ret' = Ret("payload", i, 0, 0, IVString(d), "", IVNone)
  /\ UNCHANGED copyOf

AssignTensors(i, t) ==
  /\ Alive(i)
  /\ Commit(assignTensors(S, i, t))
  /\ ret' = Ret("tensors", i, 0, 0, IVNone, "", IVNone)
  /\ UNCHANGED copyOf

\* The const member functions: each leaves *this as it is and returns a value.
Type(i) ==
  /\ Alive(i)
  /\ ret' = Ret("type", i, 0, 0, IVNone, "", IVInt(type(msgs[i])))
  /\ UNCHANGED <<msgs, pheap, theap, copyOf>>

Id(i) ==
  /\ Alive(i)
  /\ ret' = Ret("id", i, 0, 0, IVNone, "", IVInt(id(msgs[i])))
  /\ UNCHANGED <<msgs, pheap, theap, copyOf>>

IsRequest(i) ==
  /\ Alive(i)
  /\ ret' = Ret("isRequest", i, 0, 0, IVNone, "", IVBool(isRequest(msgs[i])))
  /\ UNCHANGED <<msgs, pheap, theap, copyOf>>

IsResponse(i) ==
  /\ Alive(i)
  /\ ret' = Ret("isResponse", i, 0, 0, IVNone, "", IVBool(isResponse(msgs[i])))
  /\ UNCHANGED <<msgs, pheap, theap, copyOf>>

ToIValueTuple(i) ==
  /\ Alive(i)
  /\ ret' = Ret("toIValueTuple", i, 0, 0, IVNone, "", toIValueTuple(S, msgs[i]))
  /\ UNCHANGED <<msgs, pheap, theap, copyOf>>

(* ------------------- the life cycle of two objects --------------------- *)

\* The kinds the life-cycle specification constructs with.
LifeTypes == {SCRIPT_CALL}

Init ==
  /\ msgs = [i \in Slots |-> NoMessage]
  /\ pheap = EmptyHeap
  /\ theap = EmptyHeap
  /\ ret = Ret("", 0, 0, 0, IVNone, "", IVNone)
  /\ copyOf = [i \in Slots |-> 0]

Next ==
  \/ \E i \in Slots : DefaultConstruct(i)
  \/ \E i \in Slots, p \in PayloadInputs, t \in TensorInputs, k \in LifeTypes :
       Construct3(i, p, t, k)
  \/ \E i \in Slots, p \in PayloadInputs, t \in TensorInputs, k \in LifeTypes, n \in Ids :
       Construct4(i, p, t, k, n)
  \/ \E i \in Slots : Destroy(i)
  \/ \E dst \in Slots, src \in Slots : CopyConstruct(dst, src)
  \/ \E dst \in Slots, src \in Slots : MoveConstruct(dst, src)
  \/ \E dst \in Slots, src \in Slots : CopyAssign(dst, src)
  \/ \E dst \in Slots, src \in Slots : MoveAssign(dst, src)
  \/ \E i \in Slots, n \in Ids : SetId(i, n)
  \/ \E i \in Slots, d \in PayloadInputs : AssignPayload(i, d)
  \/ \E i \in Slots, t \in TensorInputs : AssignTensors(i, t)

Spec == Init /\ [][Next]_vars

(* ------------- one object, its accessors and setId --------------------- *)

\* The state after one constructor call on slot 1.
Constructed(s, op) ==
  \E c \in {Canon(s)} :
    /\ msgs = c.objs /\ pheap = c.ph /\ theap = c.th
    /\ ret = Ret(op, 1, 0, 0, IVNone, "", IVNone)
    /\ copyOf = [i \in Slots |-> 0]

InitAccess ==
  \/ Constructed([EmptyState EXCEPT !.objs[1] = MessageDefault], "Message()")
  \/ \E p \in PayloadInputs, t \in TensorInputs, k \in MessageTypes :
       Constructed(construct3(EmptyState, 1, p, t, k), "Message3")
  \/ \E p \in PayloadInputs, t \in TensorInputs, k \in MessageTypes, n \in Ids :
       Constructed(construct4(EmptyState, 1, p, t, k, n), "Message4")

NextAccess ==
  \/ \E n \in Ids : SetId(1, n)
  \/ Type(1)
  \/ Id(1)
  \/ IsRequest(1)
  \/ IsResponse(1)
  \/ ToIValueTuple(1)

SpecAccess == InitAccess /\ [][NextAccess]_vars

(* ------------- the codec and the exception factory --------------------- *)

\* The kinds and the exception texts the codec specification is fed.
CodecTypes == {SCRIPT_CALL, PYTHON_RET, EXCEPTION, UNKNOWN}
Payloads == SeqsUpTo(Chars, MaxLen)
TensorLists == SeqsUpTo(Handles, MaxLen)
\* what() of an exception: characters other than NUL, then the NUL.
Whats == {Append(w, 0) : w \in SeqsUpTo(Chars \ {0}, MaxLen)}

\* An integer that is no enumerator of MessageType.
BadType == RUN_WITH_PROFILING_RESP + 1

WireTuple(a, b, c, d) == IVTuple(<<a, b, c, d>>)
GoodList == IVList(<<IVTensor(2), IVTensor(1)>>)

\* Values that reach fromIValueTuple from elsewhere than toIValueTuple.
InjectedIValues ==
  { IVNone, IVInt(4), IVString(<<1>>), GoodList,
    IVTuple(<<>>),
    IVTuple(<<IVString(<<1>>), GoodList, IVInt(SCRIPT_CALL)>>),
    IVTuple(<<IVString(<<1>>), GoodList, IVInt(SCRIPT_CALL), IVInt(0), IVInt(0)>>),
    WireTuple(IVInt(1), GoodList, IVInt(SCRIPT_CALL), IVInt(0)),
    WireTuple(IVString(<<1>>), IVString(<<1>>), IVInt(SCRIPT_CALL), IVInt(0)),
    WireTuple(IVString(<<1>>), GoodList, IVString(<<1>>), IVInt(0)),
    WireTuple(IVString(<<1>>), GoodList, IVInt(SCRIPT_CALL), IVNone),
    WireTuple(IVString(<<1>>), GoodList, GoodList, IVString(<<>>)),
    WireTuple(IVNone, IVNone, IVNone, IVNone),
    WireTuple(IVString(<<1>>), GoodList, IVInt(SCRIPT_CALL), IVInt(0)),
    WireTuple(IVString(<<0, 2>>), IVList(<<>>), IVInt(EXCEPTION), IVInt(DefaultId)),
    WireTuple(IVString(<<1>>), GoodList, IVInt(BadType), IVInt(0)),
    WireTuple(IVString(<<>>), IVList(<<>>), IVInt(0 - 1), IVInt(1)) }

\* What can be handed to fromIValueTuple: the tuple toIValueTuple just
\* returned, or, at a receiver that holds no message yet, an injected value.
Arriving ==
  IF ret.op = "toIValueTuple" THEN {ret.val}
  ELSE IF ret.op = "" THEN InjectedIValues
  ELSE {}

FromIValueTuple(dst, v) ==
  /\ ~Alive(dst)
  /\ LET r == fromIValueTuple(S, dst, v)
     IN /\ Commit(r.s)
        /\ ret' = Ret("fromIValueTuple", dst, 0, 0, v, r.err, IVNone)
  /\ UNCHANGED copyOf

CreateExceptionResponseStr(dst, str, n) ==
  /\ \A i \in Slots : ~Alive(i)
  /\ Commit(createExceptionResponseStr(S, dst, str, n))
  /\ ret' = Ret("createExceptionResponse(string)", dst, 0, n, IVString(str), "", IVNone)
  /\ UNCHANGED copyOf

CreateExceptionResponseExc(dst, what, n) ==
  /\ \A i \in Slots : ~Alive(i)
  /\ Commit(createExceptionResponseExc(S, dst, what, n))
  /\ ret' = Ret("createExceptionResponse(exception)", dst, 0, n, IVString(what), "", IVNone)
  /\ UNCHANGED copyOf

InitCodec ==
  \/ Init
  \/ \E p \in Payloads, t \in TensorLists, k \in CodecTypes, n \in Ids :
       Constructed(construct4(EmptyState, 1, p, t, k, n), "Message4")

NextCodec ==
  \/ ToIValueTuple(1)
  \/ \E v \in Arriving : FromIValueTuple(2, v)
  \/ \E str \in Payloads, n \in Ids : CreateExceptionResponseStr(1, str, n)
  \/ \E what \in Whats, n \in Ids : CreateExceptionResponseExc(1, what, n)

SpecCodec == InitCodec /\ [][NextCodec]_vars

(* ------------------------------ properties ----------------------------- *)

\* The state after the step.
SNext == [ph |-> pheap', th |-> theap', objs |-> msgs']

CopyOps == {"copyConstruct", "copyAssign"}
MoveOps == {"moveConstruct", "moveAssign"}
Mutators == {"payload", "tensors", "setId"}
Readers == {"toIValueTuple", "type", "id", "isRequest", "isResponse"}

\* C1.  Round trip: when fromIValueTuple is given the tuple that
\* toIValueTuple makes of a message m, it succeeds and the message it builds
\* has m's payload bytes, m's tensor list in the same order, m's type and
\* m's id.
RoundTrip ==
  (ret.op = "fromIValueTuple" /\ Alive(1) /\ ret.arg = toIValueTuple(S, msgs[1]))
    => /\ ret.err = ""
       /\ Alive(ret.dst)
       /\ Fields(S, ret.dst) = Fields(S, 1)

\* A decoded message with two tensors in the order (2, 1), an embedded NUL in
\* its payload, the exception kind and a set id.
RoundTripWitness ==
  /\ ret.op = "fromIValueTuple" /\ Alive(1) /\ Alive(2)
  /\ ret.arg = toIValueTuple(S, msgs[1])
  /\ Fields(S, 2) = [payload |-> <<0, 2>>, tensors |-> <<2, 1>>, type |-> EXCEPTION, id |-> 0]

\* The assertions of the claim that value v fails, by their diagnostics: not
\* a tuple; a tuple of other than four elements; a slot of the wrong type.
FailedChecks(v) ==
  IF v.tag # "Tuple" THEN {"Expected messageTuple to be of type tuple."}
  ELSE IF Len(v.elems) # 4 THEN {"Expected 4 elements in tuple."}
  ELSE (IF v.elems[1].tag # "String" THEN {"Expected payload to be string"} ELSE {})
       \cup (IF v.elems[2].tag # "GenericList" THEN {"Expected tensorsIValue to be list"} ELSE {})
       \cup (IF v.elems[3].tag # "Int" THEN {"Expected messageTypeIValue to be int."} ELSE {})
       \cup (IF v.elems[4].tag # "Int" THEN {"Expected messageIdIValue to be int."} ELSE {})

\* C2.  Malformed-tuple rejection: when the value given to fromIValueTuple is
\* not a tuple, or has not exactly four elements, or has a slot of the wrong
\* type, the call throws, no message is constructed, and the text of the
\* exception is the diagnostic of one of the checks that the value fails.
MalformedRejected ==
  (ret.op = "fromIValueTuple" /\ FailedChecks(ret.arg) # {})
    => /\ ret.err \in FailedChecks(ret.arg)
       /\ ~Alive(ret.dst)

\* A four-element tuple whose id slot alone is wrong was rejected.
MalformedRejectedWitness ==
  /\ ret.op = "fromIValueTuple"
  /\ FailedChecks(ret.arg) = {"Expected messageIdIValue to be int."}
  /\ ret.err = "Expected messageIdIValue to be int."
  /\ ~Alive(ret.dst)

\* The kinds the claim lists as requests and as responses.
ListedRequests ==
  { SCRIPT_CALL, PYTHON_CALL, SCRIPT_REMOTE_CALL, PYTHON_REMOTE_CALL,
    SCRIPT_RREF_FETCH_CALL, PYTHON_RREF_FETCH_CALL, RREF_USER_DELETE,
    RREF_CHILD_ACCEPT, RREF_FORK_REQUEST, FORWARD_AUTOGRAD_REQ,
    BACKWARD_AUTOGRAD_REQ, CLEANUP_AUTOGRAD_CONTEXT_REQ, RUN_WITH_PROFILING_REQ }
ListedResponses ==
  { SCRIPT_RET, PYTHON_RET, REMOTE_RET, SCRIPT_RREF_FETCH_RET,
    PYTHON_RREF_FETCH_RET, EXCEPTION, RREF_ACK, FORWARD_AUTOGRAD_RESP,
    BACKWARD_AUTOGRAD_RESP, CLEANUP_AUTOGRAD_CONTEXT_RESP, RUN_WITH_PROFILING_RESP }

\* C3.  Classification: for a message of any enumerated kind, isRequest and
\* isResponse are not both true; isRequest is true of every kind listed as a
\* request and isResponse of every kind listed as a response, and that is
\* what the two calls return.
Classification ==
  \A i \in Slots :
    (Alive(i) /\ msgs[i].type_ \in MessageTypes)
      => /\ ~(isRequest(msgs[i]) /\ isResponse(msgs[i]))
         /\ (msgs[i].type_ \in ListedRequests => isRequest(msgs[i]))
         /\ (msgs[i].type_ \in ListedResponses => isResponse(msgs[i]))
         /\ (ret.op = "isRequest" /\ ret.dst = i /\ msgs[i].type_ \in ListedRequests
               => ret.val = IVBool(TRUE))
         /\ (ret.op = "isResponse" /\ ret.dst = i /\ msgs[i].type_ \in ListedRequests
               => ret.val = IVBool(FALSE))
         /\ (ret.op = "isResponse" /\ ret.dst = i /\ msgs[i].type_ \in ListedResponses
               => ret.val = IVBool(TRUE))
         /\ (ret.op = "isRequest" /\ ret.dst = i /\ msgs[i].type_ \in ListedResponses
               => ret.val = IVBool(FALSE))

\* isRequest has just answered FALSE for an RRef acknowledgement.
ClassificationWitness ==
  /\ ret.op = "isRequest" /\ Alive(ret.dst)
  /\ msgs[ret.dst].type_ = RREF_ACK
  /\ ret.val = IVBool(FALSE)
  /\ isResponse(msgs[ret.dst])

\* C4.  Exception-envelope factory: the message createExceptionResponse
\* builds from a string s and an id n has the bytes of s as payload, no
\* tensors, the kind EXCEPTION and the id n; so does the one built from an
\* exception whose what() is s followed by the terminating NUL.
ExceptionEnvelope ==
  /\ ret.op = "createExceptionResponse(string)"
       => Fields(S, ret.dst) =
            [payload |-> ret.arg.s, tensors |-> <<>>, type |-> EXCEPTION, id |-> ret.n]
  /\ ret.op = "createExceptionResponse(exception)"
       => Fields(S, ret.dst) =
            [payload |-> SubSeq(ret.arg.s, 1, Len(ret.arg.s) - 1), tensors |-> <<>>,
             type |-> EXCEPTION, id |-> ret.n]

\* An exception whose text has two characters became a message with id 0.
ExceptionEnvelopeWitness ==
  /\ ret.op = "createExceptionResponse(exception)"
  /\ ret.arg.s = <<1, 2, 0>>
  /\ ret.n = 0
  /\ Fields(S, ret.dst).payload = <<1, 2>>

\* C5.  Kind invariant, as claimed: the type of every message, those built by
\* fromIValueTuple included, is an enumerator of MessageType.
KindInvariant == \A i \in Slots : Alive(i) => msgs[i].type_ \in MessageTypes

\* C6.  Copy independence: a copy, made by copy construction or copy
\* assignment, has the field values of its original; and while two objects
\* are copy and original, writing the payload, the tensor list or the id of
\* one leaves payload, tensor list, type and id of the other as they were.
CopyIndependence ==
  [][\A i \in Slots, j \in Slots :
       /\ (i # j /\ ret'.op \in CopyOps /\ ret'.err = "" /\ ret'.dst = i /\ ret'.src = j)
            => Fields(SNext, i) = Fields(SNext, j)
       /\ (i # j /\ (copyOf[i] = j \/ copyOf[j] = i) /\ ret'.op \in Mutators /\ ret'.dst = i)
            => Fields(SNext, j) = Fields(S, j)]_vars

\* The payload of a copy was overwritten and the original still has its own.
CopyIndependenceWitness ==
  /\ copyOf[2] = 1
  /\ ret.op = "payload" /\ ret.dst = 2
  /\ Fields(S, 2).payload = <<>>
  /\ Fields(S, 1).payload = <<2, 0>>
  /\ Fields(S, 1).tensors = <<1, 2>>
  /\ Fields(S, 2).tensors = <<1, 2>>

ReadsAndSetIdFrame ==
  [][/\ ret'.op \in Readers => Fields(SNext, ret'.dst) = Fields(S, ret'.dst)
     /\ ret'.op = "type" => ret'.val = IVInt(Fields(S, ret'.dst).type)
     /\ ret'.op = "id" => ret'.val = IVInt(Fields(S, ret'.dst).id)
     /\ ret'.op = "setId"
          => Fields(SNext, ret'.dst) = [Fields(S, ret'.dst) EXCEPT !.id = ret'.n]]_vars

\* id() has returned an id that differs from the default one, for a message
\* that has a payload and tensors.
ReadsAndSetIdFrameWitness ==
  /\ ret.op = "id" /\ ret.val = IVInt(0)
  /\ Fields(S, ret.dst).payload = <<2, 0>>
  /\ Fields(S, ret.dst).tensors = <<1, 2>>

\* C9.  Assignment exception safety: when a vector copy in copy assignment
\* throws, no object's payload, tensor list, type or id has changed.
AssignmentExceptionSafe ==
  [][(ret'.op = "copyAssign" /\ ret'.err # "")
       => \A i \in Slots :
            /\ msgs'[i].alive = msgs[i].alive
            /\ Fields(SNext, i) = Fields(S, i)]_vars

\* The copy of the tensor list threw, after the payload had been copied, in
\* an assignment between objects with different payloads.
AssignmentExceptionSafeWitness ==
  /\ ret.op = "copyAssign" /\ ret.err # "" /\ ret.n = 2
  /\ ret.dst # ret.src
  /\ Fields(S, ret.src).payload = <<2, 0>>
  /\ Fields(S, ret.dst).payload = <<>>

\* C10.  Self-assignment: a copy assignment or a move assignment of an object
\* to itself leaves its payload, tensor list, type and id as they were.
SelfAssignmentNoOp ==
  [][(ret'.op \in {"copyAssign", "moveAssign"} /\ ret'.dst = ret'.src)
       => Fields(SNext, ret'.dst) = Fields(S, ret'.dst)]_vars

\* An object with a payload and tensors was move-assigned to itself.
SelfAssignmentNoOpWitness ==
  /\ ret.op = "moveAssign" /\ ret.dst = ret.src
  /\ Fields(S, ret.dst).payload = <<2, 0>>
  /\ Fields(S, ret.dst).tensors = <<1, 2>>

====
